---- MODULE Spec2Model ----
(***************************************************************************)
(* Model of evaluator.py: the timeout decorator (inner), the child process *)
(* RunnableProcessing with its one-slot multiprocessing.Queue, and the     *)
(* body of evaluate that runs inside the child.                            *)
(*                                                                         *)
(* The parent (the caller's process) runs inner line by line; each child   *)
(* process runs run_func -> evaluate body -> queue.put -> process exit.    *)
(* A multiprocessing.Queue is modelled by its three parts: the bounded     *)
(* semaphore (sem, what full() reads), the buffer in the putting process   *)
(* (buf, drained by that process's feeder thread) and the pipe (what get() *)
(* reads).  Time is a discrete clock; join(seconds) returns when the child *)
(* is no longer alive or when `Seconds` ticks have passed.                 *)
(*                                                                         *)
(* Spec and FairSpec are evaluate as the module defines it (@timeout(0.5), *)
(* force_kill left at its default).  SpecWrapped is the decorator itself:  *)
(* either value of force_kill, and a wrapped function other than evaluate. *)
(***************************************************************************)
EXTENDS Integers, Sequences, FiniteSets, TLC

\* ---------------------------------------------------------------- bounds
MaxCalls == 2      \* calls of evaluate the caller makes, one after another
MaxClock == 3      \* the clock stops advancing here (time is unbounded)

\* ------------------------------------------------------ program constants
Seconds == 2       \* @timeout(0.5): the deadline, in clock ticks
maxsize == 1       \* multiprocessing.Queue(maxsize=1)

\* ----------------------------------------------------------------- values
\* Numbers, and three special values:
\*   "Big"     a value whose pickle does not fit the pipe's buffer
\*   "Opaque"  a value that cannot be pickled (a lambda, an open file)
\*   "range"   the builtin seeded into every symbol table
IntVals == {"0", "1", "2"}

NoMap == [n \in {} |-> "0"]

\* ------------------------------------------------------------- the code
\* The evaluated language, abstracted to four statement shapes:
\*   set  name = val          inc  name = name + 1
\*   loop while True: pass    bad  a disabled construct (def, raise, ...)
SetStmt(n, v) == [op |-> "set", name |-> n, val |-> v]
IncStmt(n) == [op |-> "inc", name |-> n, val |-> "0"]
LoopStmt == [op |-> "loop", name |-> "x", val |-> "0"]
BadStmt == [op |-> "bad", name |-> "x", val |-> "0"]

CodeA == <<SetStmt("y", "0"), SetStmt("x", "1")>>
CodeB == <<IncStmt("y")>>
CodeC == <<LoopStmt>>
CodeD == <<SetStmt("x", "2"), BadStmt>>
\* input_variables: none; a number; a number and a value too big for the
\* pipe; a number and a value that cannot be pickled; the keyword range
NoInputs == NoMap
InputY == ("y" :> "1")
InputBig == ("x" :> "Big") @@ ("y" :> "1")
InputOpaque == ("x" :> "Opaque") @@ ("y" :> "1")
InputRange == ("range" :> "1")

OutputChoices == { <<"x", "y">>, <<"range", "x">> }

\* **kwargs of the call beyond evaluate's three parameters: none, or a
\* deadline the caller tries to supply
NoKwargs == NoMap
TimeoutKwargs == ("timeout_seconds" :> "1")

\* the duration a keyword value stands for, in clock ticks
Ticks(v) == CASE v = "1" -> 1 [] v = "2" -> 2 [] OTHER -> 0

\* the calls of evaluate the caller may make
Requests ==
    [function : {"evaluate"}, code : {CodeA, CodeB, CodeD},
     input_variables : {NoInputs, InputY}, output_variables : OutputChoices,
     kwargs : {NoKwargs}]
    \cup [function : {"evaluate"}, code : {CodeC}, input_variables : {NoInputs},
          output_variables : {<<>>}, kwargs : {NoKwargs, TimeoutKwargs}]
    \cup [function : {"evaluate"}, code : {CodeB},
          input_variables : {InputBig, InputOpaque},
          output_variables : OutputChoices, kwargs : {NoKwargs}]
    \cup [function : {"evaluate"}, code : {CodeA}, input_variables : {InputRange},
          output_variables : {<<"x", "y">>}, kwargs : {NoKwargs}]

\* The decorator wraps any function.  A call of another wrapped function,
\*     @timeout(0.5)
\*     def leave(): raise SystemExit(3)
\* which ends by raising a BaseException that is not an Exception.
WrappedRequests ==
    [function : {"leave"}, code : {<<>>}, input_variables : {NoInputs},
     output_variables : {<<>>}, kwargs : {NoKwargs}]

NoRequest == [function |-> "none", code |-> <<>>, input_variables |-> NoMap,
              output_variables |-> <<>>, kwargs |-> NoKwargs]

\* ------------------------------------------------------------ exceptions
\* An exception object: its class, its message, and where its traceback
\* was made ("child", "parent", or "none" for one rebuilt from a pickle).
NoExc == [kind |-> "none", msg |-> "", tb |-> "none"]
Exc(k, m) == [kind |-> k, msg |-> m, tb |-> "child"]

\* ------------------------------------------------------------- envelopes
Success(m) == [ok |-> TRUE, map |-> m, exc |-> NoExc]
Failure(e) == [ok |-> FALSE, map |-> NoMap, exc |-> e]
NoEnvelope == [ok |-> FALSE, map |-> NoMap, exc |-> NoExc]

Range(s) == { s[i] : i \in DOMAIN s }

Calls == 1..MaxCalls


\* ------------------------------------------------- evaluate, lines 66-97
\* def evaluate(eval_code, input_variables={}, output_variables=[]): any
\* other keyword is one the function does not accept, and the call of
\* line 27 raises TypeError before the body runs.
UnexpectedKeyword(r) == r.function = "evaluate" /\ DOMAIN r.kwargs # {}

\* make_symbol_table(use_numpy=False, range=range, **input_variables):
\* the base table holds the builtin range; the inputs are added to it.
MakeSymbolTable(inp) == inp @@ ("range" :> "range")

\* range=range and **input_variables name the same keyword: the call
\* itself raises TypeError before any table is built.
DuplicateKeyword(inp) == "range" \in DOMAIN inp

Inc(v) == CASE v = "0" -> "1" [] v = "1" -> "2" [] OTHER -> "2"

\* name = val inside the interpreter: binds or rebinds in the symbol table
Store(sym, n, v) == [m \in DOMAIN sym \cup {n} |-> IF m = n THEN v ELSE sym[m]]

\* the statement cannot be run: a disabled construct, or name + 1 where
\* name is unbound or not a number
StmtFails(sym, s) ==
    CASE s.op = "bad" -> TRUE
      [] s.op = "inc" -> IF s.name \in DOMAIN sym THEN sym[s.name] \notin IntVals ELSE TRUE
      [] OTHER -> FALSE

ExecStmt(sym, s) ==
    IF s.op = "set" THEN Store(sym, s.name, s.val)
    ELSE Store(sym, s.name, Inc(sym[s.name]))

\* faulty variant: the filter is left out and the whole symbol table is returned
FilterOutputsAll(sym, outs) == sym

\* symtable = {x: sym[x] for x in sym if x in output_variables}
FilterOutputs(sym, outs) == [n \in (DOMAIN sym \cap Range(outs)) |-> sym[n]]

\* faulty variant: the callable runs in the caller's memory (a thread, not a
\* process), so a store to a seeded name shows in the caller's mapping
CallerInputsShared(inp, n, v) ==
    IF n \in DOMAIN inp THEN [inp EXCEPT ![n] = v] ELSE inp

\* The child is another process: a store into its symbol table writes the
\* child's memory and leaves the caller's input_variables as they were.
CallerInputsAfterStore(inp, n, v) == inp

\* --------------------------------------------- the queue, lines 20, 28-36
\* faulty variant: one queue is shared by all contexts (made once, at class
\* level), so the queue a new context uses holds what an earlier call left
QueueWithLeftover ==
    [sem |-> 0, buf |-> <<>>,
     pipe |-> <<[ok |-> TRUE, map |-> NoMap, exc |-> NoExc]>>]

\* multiprocessing.Queue(maxsize=1), made in __init__ for each
\* RunnableProcessing object: a new, empty queue
EmptyQueue == [sem |-> 0, buf |-> <<>>, pipe |-> <<>>]

\* faulty variant: an unbounded queue into which both put statements of run_func run
QueuePutTwice(q, env) == [q EXCEPT !.sem = @ + 2, !.buf = @ \o <<env, env>>]

\* Queue.put: take one unit of the bounded semaphore, append to the buffer
\* (the feeder thread sends it later)
QueuePut(q, env) == [q EXCEPT !.sem = @ + 1, !.buf = Append(@, env)]

\* done(): queue.full(), which reads the semaphore only
QueueFull(q) == q.sem = maxsize

\* Queue.get once bytes are in the pipe: read them, release the semaphore
QueueGet(q) == [q EXCEPT !.sem = @ - 1, !.pipe = Tail(@)]

\* pickling, done by the feeder thread of the putting process
Picklable(env) == \A n \in DOMAIN env.map : env.map[n] # "Opaque"
FitsPipe(env) == \A n \in DOMAIN env.map : env.map[n] # "Big"

\* The pickle of an envelope: an exception is reduced to its class and
\* arguments, its traceback is not part of the pickle.
Dumps(env) ==
    [ok |-> env.ok, map |-> env.map,
     exc |-> IF env.ok THEN NoExc ELSE [env.exc EXCEPT !.tb = "none"]]

\* (success, result) as unpickled by get() in the parent
Loads(bytes) == [ok |-> bytes.ok, map |-> bytes.map, exc |-> bytes.exc]

\* run_func line 28: the envelope of a normal return
SuccessEnvelope(result) == Success(result)

\* faulty variant: the exception is stringified before it is put
FailureEnvelopeStringified(e) ==
    Failure([kind |-> "str", msg |-> e.msg, tb |-> "none"])

\* run_func line 30: the envelope of a raised Exception
FailureEnvelope(e) == Failure(e)

\* ---------------------------------------------------------------- state
VARIABLES
    calls,        \* how many calls of evaluate the caller has made
    ppc,          \* the parent's position in inner ("idle": not in a call)
    req,          \* the caller's arguments of the current/last call
    req0,         \* history: those arguments as they were when the call began
    force_kill,   \* the decorator's force_kill argument
    clock,        \* wall-clock time, in ticks since the current call began
    now,          \* inner's local `now`
    joinStart,    \* when join(seconds) was entered
    got,          \* (success, result) read at line 56
    outcome,      \* per call: how it ended, and with what
    cpc,          \* per context: the child's position
    alive,        \* per context: is_alive()
    sigterm,      \* per context: SIGTERM sent and not yet acted on
    queue,        \* per context: its queue
    cargs,        \* per context: the child's copy of the arguments
    csym,         \* per context: the interpreter's symbol table
    cpos,         \* per context: next statement of the code
    cenv,         \* per context: the envelope run_func is about to put
    hist          \* per context: history counters

vars == <<calls, ppc, req, req0, force_kill, clock, now, joinStart, got,
          outcome, cpc, alive, sigterm, queue, cargs, csym, cpos, cenv, hist>>

parentLocals == <<now, joinStart, got>>
childVars == <<cpc, alive, sigterm, queue, cargs, csym, cpos, cenv>>

NoOutcome == [kind |-> "none", map |-> NoMap, exc |-> NoExc, runtime |-> 0]

NoHist == [starts |-> 0, terminates |-> 0, puts |-> 0, gets |-> 0,
           raised |-> NoExc, putInTime |-> FALSE, aliveAtJoin |-> FALSE,
           trace |-> <<>>]

\* history: the parent has completed operation `step` of its call
Did(h, step) == [h EXCEPT !.trace = Append(@, step)]

Init ==
    /\ calls = 0
    /\ ppc = "idle"
    /\ req = NoRequest
    /\ req0 = NoRequest
    /\ force_kill = TRUE
    /\ clock = 0
    /\ now = 0
    /\ joinStart = 0
    /\ got = NoEnvelope
    /\ outcome = [c \in Calls |-> NoOutcome]
    /\ cpc = [c \in Calls |-> "none"]
    /\ alive = [c \in Calls |-> FALSE]
    /\ sigterm = [c \in Calls |-> FALSE]
    /\ queue = [c \in Calls |-> EmptyQueue]
    /\ cargs = [c \in Calls |-> NoRequest]
    /\ csym = [c \in Calls |-> NoMap]
    /\ cpos = [c \in Calls |-> 1]
    /\ cenv = [c \in Calls |-> NoEnvelope]
    /\ hist = [c \in Calls |-> NoHist]


\* ------------------------------------------- the parent: inner, lines 45-60
\* faulty variant: the context is created and started first and the start
\* timestamp is taken after start()
NextLineStartFirst(l) ==
    CASE l = "L45" -> "L47" [] l = "L47" -> "L48"
      [] l = "L48" -> "L46" [] l = "L46" -> "L49"

\* inner is straight-line code from its entry (line 45) to join (line 49):
\* 46 now = time.time(); 47 proc = RunnableProcessing(...); 48 proc.start()
NextLine(l) ==
    CASE l = "L45" -> "L46" [] l = "L46" -> "L47"
      [] l = "L47" -> "L48" [] l = "L48" -> "L49"

\* The caller calls the wrapped function, evaluate(eval_code, input_variables,
\* output_variables): inner(*args, **kwargs) is entered.
Call(r) ==
    /\ ppc = "idle"
    /\ calls < MaxCalls
    /\ calls' = calls + 1
    /\ req' = r
    /\ req0' = r
    /\ ppc' = NextLine("L45")
    \* Earlier calls have returned and their proc objects are out of scope:
    \* of an earlier context only how its call ended and whether it is
    \* still alive is kept.
    /\ outcome' = [c \in Calls |-> [NoOutcome EXCEPT !.kind = outcome[c].kind]]
    /\ hist' = [c \in Calls |-> [NoHist EXCEPT !.starts = hist[c].starts,
                                              !.terminates = hist[c].terminates]]
    /\ cpc' = [c \in Calls |-> IF c > calls THEN cpc[c]
                               ELSE IF alive[c] THEN "old" ELSE "dead"]
    /\ queue' = [c \in Calls |-> EmptyQueue]
    /\ cargs' = [c \in Calls |-> NoRequest]
    /\ csym' = [c \in Calls |-> NoMap]
    /\ cpos' = [c \in Calls |-> 1]
    /\ cenv' = [c \in Calls |-> NoEnvelope]
    /\ UNCHANGED <<force_kill, clock, parentLocals, alive, sigterm>>

\* inner returns or raises to the caller: its locals are gone
LeaveInner ==
    /\ ppc' = "idle"
    /\ clock' = 0
    /\ now' = 0
    /\ joinStart' = 0
    /\ got' = NoEnvelope

\* line 46: now = time.time()
TakeNow ==
    /\ ppc = "L46"
    /\ now' = clock
    /\ hist' = [hist EXCEPT ![calls] = Did(@, "now")]
    /\ ppc' = NextLine("L46")
    /\ UNCHANGED <<calls, req, req0, force_kill, clock, joinStart, got,
                   outcome, childVars>>

\* line 47: proc = RunnableProcessing(function, *args, **kwargs);
\* __init__ (lines 19-23) makes this call's own queue
NewProc ==
    /\ ppc = "L47"
    /\ queue' = [queue EXCEPT ![calls] = EmptyQueue]
    /\ cpc' = [cpc EXCEPT ![calls] = "new"]
    /\ hist' = [hist EXCEPT ![calls] = Did(@, "init")]
    /\ ppc' = NextLine("L47")
    /\ UNCHANGED <<calls, req, req0, force_kill, clock, parentLocals, outcome,
                   alive, sigterm, cargs, csym, cpos, cenv>>

\* line 48: proc.start(): the child process begins with a copy of the arguments
Start ==
    /\ ppc = "L48"
    /\ alive' = [alive EXCEPT ![calls] = TRUE]
    /\ cargs' = [cargs EXCEPT ![calls] = req]
    /\ cpc' = [cpc EXCEPT ![calls] = "L79"]
    /\ hist' = [hist EXCEPT ![calls] = Did([@ EXCEPT !.starts = @ + 1], "start")]
    /\ ppc' = NextLine("L48")
    /\ UNCHANGED <<calls, req, req0, force_kill, clock, parentLocals, outcome,
                   sigterm, queue, csym, cpos, cenv>>

\* line 49: proc.join(seconds) is entered
JoinEnter ==
    /\ ppc = "L49"
    /\ joinStart' = clock
    /\ ppc' = "join"
    /\ UNCHANGED <<calls, req, req0, force_kill, clock, now, got, outcome,
                   childVars, hist>>

\* faulty variant: the deadline is read from the call's keyword arguments
JoinDeadlineFromCall(r) ==
    IF "timeout_seconds" \in DOMAIN r.kwargs
    THEN Ticks(r.kwargs["timeout_seconds"]) ELSE Seconds

\* `seconds` in proc.join(seconds) is the decorator's argument (lines 39
\* and 65), bound when evaluate was defined: the same for every call r,
\* whatever arguments the call passes
JoinDeadline(r) == Seconds

\* faulty variant: join gives up one tick before the deadline
JoinExpiredEarly == clock - joinStart >= JoinDeadline(req) - 1

\* join returns: the child has exited, or `seconds` have passed
JoinExpired == clock - joinStart >= JoinDeadline(req)

JoinReturn ==
    /\ ppc = "join"
    /\ ~alive[calls] \/ JoinExpired
    /\ hist' = [hist EXCEPT ![calls] =
                  Did([@ EXCEPT !.aliveAtJoin = alive[calls]], "join")]
    /\ ppc' = "L50"
    /\ UNCHANGED <<calls, req, req0, force_kill, clock, parentLocals, outcome,
                   childVars>>

\* faulty variant: the timeout path raises without terminating the context
AfterIsAliveNoKill(isAlive, forceKill) == IF isAlive THEN "L53" ELSE "L55"

\* faulty variant: a context found alive is started again instead of being given up
AfterIsAliveRetry(isAlive, forceKill) == IF isAlive THEN "L48" ELSE "L55"

\* faulty variant: after join the context is terminated whether or not it is alive
AfterIsAliveKillAnyway(isAlive, forceKill) == IF forceKill THEN "L52" ELSE "L53"

\* faulty variant: force_kill is ignored and a context found alive is always terminated
AfterIsAliveIgnoreFlag(isAlive, forceKill) == IF isAlive THEN "L52" ELSE "L55"

\* line 50-51: if proc.is_alive(): if force_kill:
AfterIsAlive(isAlive, forceKill) ==
    IF isAlive THEN (IF forceKill THEN "L52" ELSE "L53") ELSE "L55"

IsAlive ==
    /\ ppc = "L50"
    /\ ppc' = AfterIsAlive(alive[calls], force_kill)
    /\ hist' = [hist EXCEPT ![calls] =
                  Did(@, IF alive[calls] THEN "is_alive" ELSE "not_alive")]
    /\ UNCHANGED <<calls, req, req0, force_kill, clock, parentLocals, outcome,
                   childVars>>

\* faulty variant: lines 53-54 are left out and control falls through to line 55
AfterTerminateFallThrough == "L55"

\* after line 52 control goes on to lines 53-54, inside the same if
AfterTerminate == "L53"

\* line 52: proc.terminate() sends SIGTERM and returns at once
Terminate ==
    /\ ppc = "L52"
    /\ sigterm' = [sigterm EXCEPT ![calls] = TRUE]
    /\ hist' = [hist EXCEPT ![calls] =
                  Did([@ EXCEPT !.terminates = @ + 1], "terminate")]
    /\ ppc' = AfterTerminate
    /\ UNCHANGED <<calls, req, req0, force_kill, clock, parentLocals, outcome,
                   cpc, alive, queue, cargs, csym, cpos, cenv>>

\* lines 53-54: runtime = time.time() - now; raise TimeoutException(...)
RaiseTimeout ==
    /\ ppc = "L53"
    /\ outcome' = [outcome EXCEPT ![calls] =
           [kind |-> "Timeout", map |-> NoMap,
            exc |-> [kind |-> "TimeoutException", msg |-> "timed out", tb |-> "parent"],
            runtime |-> clock - now]]
    /\ hist' = [hist EXCEPT ![calls] = Did(Did(@, "runtime"), "raise")]
    /\ LeaveInner
    /\ UNCHANGED <<calls, req, req0, force_kill, childVars>>

\* line 55: assert proc.done()
AssertDone ==
    /\ ppc = "L55"
    /\ IF QueueFull(queue[calls])
       THEN /\ ppc' = "L56"
            /\ UNCHANGED <<outcome, clock, parentLocals>>
       ELSE /\ outcome' = [outcome EXCEPT ![calls] =
                   [kind |-> "Assert", map |-> NoMap,
                    exc |-> [kind |-> "AssertionError", msg |-> "", tb |-> "parent"],
                    runtime |-> 0]]
            /\ LeaveInner
    /\ hist' = [hist EXCEPT ![calls] = Did(@, "done")]
    /\ UNCHANGED <<calls, req, req0, force_kill, childVars>>

\* line 56: success, result = proc.result(): queue.get() blocks until the
\* pipe holds bytes
Result ==
    /\ ppc = "L56"
    /\ queue[calls].pipe # <<>>
    /\ got' = Loads(Head(queue[calls].pipe))
    /\ queue' = [queue EXCEPT ![calls] = QueueGet(@)]
    /\ hist' = [hist EXCEPT ![calls] = Did([@ EXCEPT !.gets = @ + 1], "result")]
    /\ ppc' = "L57"
    /\ UNCHANGED <<calls, req, req0, force_kill, clock, now, joinStart, outcome,
                   cpc, alive, sigterm, cargs, csym, cpos, cenv>>

\* lines 57-60: return result / raise result
Deliver(env) ==
    IF env.ok
    THEN [kind |-> "Return", map |-> env.map, exc |-> NoExc, runtime |-> 0]
    ELSE [kind |-> "Raise", map |-> NoMap,
          exc |-> [env.exc EXCEPT !.tb = "parent"], runtime |-> 0]

ReturnOrRaise ==
    /\ ppc = "L57"
    /\ outcome' = [outcome EXCEPT ![calls] = Deliver(got)]
    /\ LeaveInner
    /\ UNCHANGED <<calls, req, req0, force_kill, childVars, hist>>

ParentNext ==
    \/ TakeNow \/ NewProc \/ Start \/ JoinEnter \/ JoinReturn \/ IsAlive
    \/ Terminate \/ RaiseTimeout \/ AssertDone \/ Result \/ ReturnOrRaise

\* Time passes, between the two readings of the clock (lines 46 and 53).
\* The clock is capped; before join is entered it stops early enough for
\* the deadline to fall within the cap.
Tick ==
    /\ ppc \in {"L47", "L48", "L49", "join", "L50", "L52", "L53"}
    /\ clock < MaxClock
    /\ ppc \in {"L47", "L48", "L49"} => clock + Seconds < MaxClock
    /\ clock' = clock + 1
    /\ UNCHANGED <<calls, ppc, req, req0, force_kill, parentLocals, outcome,
                   childVars, hist>>


\* ------------------------------ the child: run_func (25-30), evaluate (79-97)
\* The deadline of context c's call has not expired yet.
DeadlineOpen(c) ==
    /\ c = calls
    /\ ppc \in {"L49", "join"}
    /\ ppc = "join" => ~JoinExpired

\* line 27, result = func(*args, **kwargs), with a keyword evaluate does not
\* accept: the call raises TypeError, which line 29 catches
ChildCallFails(c) ==
    /\ alive[c] /\ cpc[c] = "L79"
    /\ UnexpectedKeyword(cargs[c])
    /\ cenv' = [cenv EXCEPT ![c] = FailureEnvelope(Exc("TypeError", "unexpected keyword"))]
    /\ hist' = [hist EXCEPT ![c].raised = Exc("TypeError", "unexpected keyword")]
    /\ cpc' = [cpc EXCEPT ![c] = "L30"]
    /\ UNCHANGED <<calls, ppc, req, req0, force_kill, clock, parentLocals, outcome,
                   alive, sigterm, queue, cargs, csym, cpos>>

\* line 27 with func a function that raises SystemExit: `except Exception`
\* (line 29) does not catch it, run_func ends by raising, nothing is put,
\* and the process shuts down
ChildSystemExit(c) ==
    /\ alive[c] /\ cpc[c] = "L79"
    /\ cargs[c].function = "leave"
    /\ hist' = [hist EXCEPT ![c].raised = Exc("SystemExit", "3")]
    /\ cpc' = [cpc EXCEPT ![c] = "exiting"]
    /\ UNCHANGED <<calls, ppc, req, req0, force_kill, clock, parentLocals, outcome,
                   alive, sigterm, queue, cargs, csym, cpos, cenv>>

\* line 27 calls evaluate, and its body begins.
\* line 79: sym = make_symbol_table(use_numpy=False, range=range, **input_variables)
ChildBuildSym(c) ==
    /\ alive[c] /\ cpc[c] = "L79"
    /\ cargs[c].function = "evaluate" /\ ~UnexpectedKeyword(cargs[c])
    /\ IF DuplicateKeyword(cargs[c].input_variables)
       THEN /\ cenv' = [cenv EXCEPT ![c] = FailureEnvelope(Exc("TypeError", "range"))]
            /\ hist' = [hist EXCEPT ![c].raised = Exc("TypeError", "range")]
            /\ cpc' = [cpc EXCEPT ![c] = "L30"]
            /\ UNCHANGED <<csym, cpos>>
       ELSE /\ csym' = [csym EXCEPT ![c] = MakeSymbolTable(cargs[c].input_variables)]
            /\ cpos' = [cpos EXCEPT ![c] = 1]
            /\ cpc' = [cpc EXCEPT ![c] = "L95"]
            /\ UNCHANGED <<cenv, hist>>
    /\ UNCHANGED <<calls, ppc, req, req0, force_kill, clock, parentLocals, outcome,
                   alive, sigterm, queue, cargs>>

CurStmt(c) == cargs[c].code[cpos[c]]

\* line 95, aeval(eval_code): one statement of the code runs
ChildStmt(c) ==
    /\ alive[c] /\ cpc[c] = "L95"
    /\ cpos[c] <= Len(cargs[c].code)
    /\ CurStmt(c).op \in {"set", "inc"}
    /\ ~StmtFails(csym[c], CurStmt(c))
    /\ csym' = [csym EXCEPT ![c] = ExecStmt(@, CurStmt(c))]
    /\ cpos' = [cpos EXCEPT ![c] = @ + 1]
    /\ req' = [req EXCEPT !.input_variables =
                 CallerInputsAfterStore(@, CurStmt(c).name,
                                        ExecStmt(csym[c], CurStmt(c))[CurStmt(c).name])]
    /\ UNCHANGED <<calls, ppc, req0, force_kill, clock, parentLocals, outcome,
                   cpc, alive, sigterm, queue, cargs, cenv, hist>>

\* The interpreter is a library outside this source, and the source does not
\* fix how it reports a failing statement: it may raise out of aeval, or
\* report the error itself and return.  Both are possible steps.
\*
\* line 95: a statement fails and the interpreter raises out of aeval
ChildEvalRaise(c) ==
    /\ alive[c] /\ cpc[c] = "L95"
    /\ cpos[c] <= Len(cargs[c].code)
    /\ StmtFails(csym[c], CurStmt(c))
    /\ cenv' = [cenv EXCEPT ![c] = FailureEnvelope(Exc("EvalError", CurStmt(c).op))]
    /\ hist' = [hist EXCEPT ![c].raised = Exc("EvalError", CurStmt(c).op)]
    /\ cpc' = [cpc EXCEPT ![c] = "L30"]
    /\ UNCHANGED <<calls, ppc, req, req0, force_kill, clock, parentLocals, outcome,
                   alive, sigterm, queue, cargs, csym, cpos>>

\* line 95: a statement fails and the interpreter reports the error itself
\* and returns; the statements before it have run
ChildEvalSwallow(c) ==
    /\ alive[c] /\ cpc[c] = "L95"
    /\ cpos[c] <= Len(cargs[c].code)
    /\ StmtFails(csym[c], CurStmt(c))
    /\ cpc' = [cpc EXCEPT ![c] = "L96"]
    /\ UNCHANGED <<calls, ppc, req, req0, force_kill, clock, parentLocals, outcome,
                   alive, sigterm, queue, cargs, csym, cpos, cenv, hist>>

\* line 95: the code has run to its end
ChildEvalDone(c) ==
    /\ alive[c] /\ cpc[c] = "L95"
    /\ cpos[c] > Len(cargs[c].code)
    /\ cpc' = [cpc EXCEPT ![c] = "L96"]
    /\ UNCHANGED <<calls, ppc, req, req0, force_kill, clock, parentLocals, outcome,
                   alive, sigterm, queue, cargs, csym, cpos, cenv, hist>>

\* lines 96-97 and 27: the filtered table is evaluate's result
ChildFilter(c) ==
    /\ alive[c] /\ cpc[c] = "L96"
    /\ cenv' = [cenv EXCEPT ![c] =
                  SuccessEnvelope(FilterOutputs(csym[c], cargs[c].output_variables))]
    /\ cpc' = [cpc EXCEPT ![c] = "L28"]
    /\ UNCHANGED <<calls, ppc, req, req0, force_kill, clock, parentLocals, outcome,
                   alive, sigterm, queue, cargs, csym, cpos, hist>>

\* line 28 / line 30: self.queue.put(...); put blocks while the queue is full
ChildPut(c) ==
    /\ alive[c] /\ cpc[c] \in {"L28", "L30"}
    /\ queue[c].sem < maxsize
    /\ queue' = [queue EXCEPT ![c] = QueuePut(@, cenv[c])]
    /\ hist' = [hist EXCEPT ![c].puts = @ + 1, ![c].putInTime = DeadlineOpen(c)]
    /\ cpc' = [cpc EXCEPT ![c] = "ret"]
    /\ UNCHANGED <<calls, ppc, req, req0, force_kill, clock, parentLocals, outcome,
                   alive, sigterm, cargs, csym, cpos, cenv>>

\* run_func has returned: the process begins to shut down
ChildBeginExit(c) ==
    /\ alive[c] /\ cpc[c] = "ret"
    /\ cpc' = [cpc EXCEPT ![c] = "exiting"]
    /\ UNCHANGED <<calls, ppc, req, req0, force_kill, clock, parentLocals, outcome,
                   alive, sigterm, queue, cargs, csym, cpos, cenv, hist>>

\* What the feeder thread does with the buffered envelope.  It pickles it
\* and writes it to the pipe; the write completes only if the bytes fit the
\* pipe, since nobody reads while the child is alive.  When pickling fails
\* the envelope is dropped, and the semaphore is released only if the
\* process has not begun to shut down.
FeedResult(q, exiting) ==
    IF Picklable(Head(q.buf))
    THEN [q EXCEPT !.buf = Tail(@), !.pipe = Append(@, Dumps(Head(q.buf)))]
    ELSE [q EXCEPT !.buf = Tail(@), !.sem = IF exiting THEN @ ELSE @ - 1]

Feed(c) ==
    /\ alive[c] /\ cpc[c] \in {"ret", "exiting"}
    /\ queue[c].buf # <<>>
    /\ Picklable(Head(queue[c].buf)) => FitsPipe(Head(queue[c].buf))
    /\ queue' = [queue EXCEPT ![c] = FeedResult(@, cpc[c] = "exiting")]
    /\ UNCHANGED <<calls, ppc, req, req0, force_kill, clock, parentLocals, outcome,
                   cpc, alive, sigterm, cargs, csym, cpos, cenv, hist>>

\* the process exits once its feeder thread has finished
ChildExit(c) ==
    /\ alive[c] /\ cpc[c] = "exiting"
    /\ queue[c].buf = <<>>
    /\ alive' = [alive EXCEPT ![c] = FALSE]
    /\ cpc' = [cpc EXCEPT ![c] = "dead"]
    /\ UNCHANGED <<calls, ppc, req, req0, force_kill, clock, parentLocals, outcome,
                   sigterm, queue, cargs, csym, cpos, cenv, hist>>

\* SIGTERM takes effect: the process is gone, with whatever it had buffered
ChildDie(c) ==
    /\ alive[c] /\ sigterm[c]
    /\ alive' = [alive EXCEPT ![c] = FALSE]
    /\ cpc' = [cpc EXCEPT ![c] = "dead"]
    /\ queue' = [queue EXCEPT ![c].buf = <<>>]
    /\ UNCHANGED <<calls, ppc, req, req0, force_kill, clock, parentLocals, outcome,
                   sigterm, cargs, csym, cpos, cenv, hist>>

ChildNext(c) ==
    \/ ChildCallFails(c) \/ ChildBuildSym(c) \/ ChildStmt(c) \/ ChildEvalRaise(c) \/ ChildEvalSwallow(c)
    \/ ChildEvalDone(c) \/ ChildFilter(c) \/ ChildPut(c) \/ ChildBeginExit(c)
    \/ Feed(c) \/ ChildExit(c)

Next ==
    \/ \E r \in Requests : Call(r)
    \/ ParentNext
    \/ Tick
    \/ \E c \in Calls : ChildNext(c)
    \/ \E c \in Calls : ChildDie(c)

Spec == Init /\ [][Next]_vars

\* The parent process runs, time passes, and a delivered SIGTERM kills.
FairSpec ==
    /\ Spec
    /\ WF_vars(ParentNext)
    /\ WF_vars(Tick)
    /\ \A c \in Calls : WF_vars(ChildDie(c))


\* Any function wrapped with timeout(seconds, force_kill), with either
\* value of force_kill: evaluate's body, and a function that raises
\* SystemExit.
InitWrapped ==
    /\ calls = 0
    /\ ppc = "idle"
    /\ req = NoRequest
    /\ req0 = NoRequest
    /\ force_kill \in BOOLEAN
    /\ clock = 0
    /\ now = 0
    /\ joinStart = 0
    /\ got = NoEnvelope
    /\ outcome = [c \in Calls |-> NoOutcome]
    /\ cpc = [c \in Calls |-> "none"]
    /\ alive = [c \in Calls |-> FALSE]
    /\ sigterm = [c \in Calls |-> FALSE]
    /\ queue = [c \in Calls |-> EmptyQueue]
    /\ cargs = [c \in Calls |-> NoRequest]
    /\ csym = [c \in Calls |-> NoMap]
    /\ cpos = [c \in Calls |-> 1]
    /\ cenv = [c \in Calls |-> NoEnvelope]
    /\ hist = [c \in Calls |-> NoHist]

NextWrapped ==
    \/ Next
    \/ \E r \in WrappedRequests : Call(r)
    \/ \E c \in Calls : ChildSystemExit(c)

SpecWrapped == InitWrapped /\ [][NextWrapped]_vars


\* ======================================================================
\* Properties
\* ======================================================================
Ended(c) == outcome[c].kind # "none"
TimedOut(c) == outcome[c].kind = "Timeout"

\* C1: every call of evaluate eventually returns a value or raises to its
\* caller, whatever the callable does: the caller never blocks forever in
\* join, done or result.
C1_EveryCallEnds == (ppc # "idle") ~> (ppc = "idle")

\* C2 as stated: when TimeoutException reaches the caller, terminate() has
\* been invoked on the context and the context is not alive.
C2_NotAliveWhenTimeoutRaised ==
    \A c \in Calls : TimedOut(c) => hist[c].terminates >= 1 /\ ~alive[c]

\* C2 (amended): when TimeoutException reaches the caller, terminate() has
\* been invoked exactly once on the context; the context may still be alive
\* at that moment, but then SIGTERM is pending on it, and eventually every
\* context of a timed-out call is dead for good, with no further action of
\* the caller.
C2_TerminatedThenDead ==
    /\ [](\A c \in Calls :
            TimedOut(c) => hist[c].terminates = 1 /\ (alive[c] => sigterm[c]))
    /\ <>[](\A c \in Calls : TimedOut(c) => ~alive[c])

\* two calls have timed out, and both contexts are dead
C2_Witness ==
    /\ Cardinality({c \in Calls : TimedOut(c)}) >= 2
    /\ \A c \in Calls : TimedOut(c) => hist[c].terminates = 1 /\ ~alive[c]

\* C3: if the callable finished and pushed its envelope into the queue
\* before the deadline expired, evaluate does not raise TimeoutException.
C3_NoTimeoutWhenPutInTime ==
    \A c \in Calls : TimedOut(c) => ~hist[c].putInTime

\* C4: if the callable raised inside the child and the call did not time
\* out, the caller receives that failure, same kind and content, re-raised,
\* and no mapping.
C4_FailureRelayed ==
    \A c \in Calls :
        (hist[c].raised # NoExc /\ Ended(c) /\ ~TimedOut(c)) =>
            /\ outcome[c].kind = "Raise"
            /\ outcome[c].exc.kind = hist[c].raised.kind
            /\ outcome[c].exc.msg = hist[c].raised.msg
            /\ outcome[c].map = NoMap

C4_Witness ==
    \E c \in Calls : outcome[c].kind = "Raise" /\ hist[c].raised.kind = "TypeError"


\* the names the code of context c has assigned so far
Assigned(c) == { cargs[c].code[i].name : i \in 1..(cpos[c] - 1) }

\* C5 as stated: on success the key set of the returned mapping is exactly
\* output_variables intersected with the input bindings plus the names the
\* code assigned, each value being the name's final value.
C5_KeysAreRequestedInputsOrAssigned ==
    \A c \in Calls :
        outcome[c].kind = "Return" =>
            /\ DOMAIN outcome[c].map =
                 Range(cargs[c].output_variables)
                   \cap (DOMAIN cargs[c].input_variables \cup Assigned(c))
            /\ \A n \in DOMAIN outcome[c].map : outcome[c].map[n] = csym[c][n]

\* C5 (amended): on success the key set of the returned mapping is exactly
\* output_variables intersected with the keys of the final symbol table,
\* which are the base table's names (the builtin range), the input bindings
\* and the names the code assigned; each value is the name's final value,
\* and a requested name that is not in the table is omitted.
C5_KeysAreRequestedTableNames ==
    \A c \in Calls :
        outcome[c].kind = "Return" =>
            /\ DOMAIN outcome[c].map =
                 Range(cargs[c].output_variables) \cap DOMAIN csym[c]
            /\ calls = c =>
                 DOMAIN csym[c] =
                   {"range"} \cup DOMAIN cargs[c].input_variables \cup Assigned(c)
            /\ \A n \in DOMAIN outcome[c].map : outcome[c].map[n] = csym[c][n]

\* a success that returns some requested names and omits one the code never set
C5_Witness ==
    \E c \in Calls :
        /\ outcome[c].kind = "Return"
        /\ outcome[c].map # NoMap
        /\ Range(cargs[c].output_variables) \ DOMAIN outcome[c].map # {}
        /\ DOMAIN csym[c] \ DOMAIN outcome[c].map # {}

\* C6 as stated: on the timed-out path no envelope was ever pushed into the
\* queue of that invocation, and its queue is empty.
C6_NothingPushedWhenTimedOut ==
    \A c \in Calls :
        (TimedOut(c) /\ hist[c].terminates > 0) =>
            hist[c].puts = 0 /\ queue[c] = EmptyQueue

\* C6 (amended): once terminate() has been invoked on a context, the caller
\* never reads that invocation's queue: an envelope may have been pushed
\* (at most one), but it is never taken out, and the call ends in
\* TimeoutException only.
C6_NothingReadWhenTerminated ==
    \A c \in Calls :
        hist[c].terminates > 0 =>
            /\ hist[c].gets = 0
            /\ hist[c].puts <= 1
            /\ outcome[c].kind \in {"none", "Timeout"}
            /\ c = calls => ppc \in {"L53", "idle"}

\* a timed-out call whose context had pushed its envelope
C6_Witness ==
    \E c \in Calls : TimedOut(c) /\ hist[c].terminates = 1 /\ hist[c].puts = 1

\* C7: the queue holds at most one item in every state, at most one
\* envelope is pushed over the life of the invocation, and the caller takes
\* out at most one.
C7_AtMostOneEnvelope ==
    \A c \in Calls :
        /\ queue[c].sem <= maxsize
        /\ Len(queue[c].buf) + Len(queue[c].pipe) <= 1
        /\ hist[c].puts <= 1
        /\ hist[c].gets <= hist[c].puts

C7_Witness ==
    \E c \in Calls : hist[c].puts = 1 /\ hist[c].gets = 1 /\ queue[c].sem = 0

\* C8: if after join the context is not alive and no envelope is in the
\* queue, the call aborts at the assertion: it does not go on to read the
\* queue (where it would block) and returns no mapping.
C8_FinishedButEmptyAsserts ==
    (ppc = "L55" /\ ~alive[calls] /\ queue[calls].pipe = <<>>)
        => ~QueueFull(queue[calls])

\* C9 as stated: a call that has ended has started exactly one context and
\* ended in one of TimedOut, Completed(Success), Completed(Failure).
C9_ThreeOutcomes ==
    \A c \in Calls :
        (c <= calls /\ (c < calls \/ ppc = "idle")) =>
            /\ hist[c].starts = 1
            /\ outcome[c].kind \in {"Timeout", "Return", "Raise"}

\* C9 (amended): each call starts exactly one context; a call that has ended
\* has ended in exactly one of four outcomes, TimedOut, Completed(Success),
\* Completed(Failure) or the AssertionError of line 55; and once the outcome
\* is reached it does not change and the context is not started again.
C9_OneContextOneOutcome ==
    /\ [](\A c \in Calls :
            /\ hist[c].starts <= 1
            /\ outcome[c].kind \in {"none", "Timeout", "Return", "Raise", "Assert"}
            /\ Ended(c) => hist[c].starts = 1
            /\ (c <= calls /\ (c < calls \/ ppc = "idle")) => Ended(c))
    /\ [][\A c \in Calls :
            Ended(c) => /\ outcome'[c].kind = outcome[c].kind
                        /\ hist'[c].starts = hist[c].starts]_vars

C9_Witness ==
    /\ \E c \in Calls : outcome[c].kind = "Assert" /\ hist[c].starts = 1
    /\ \E c \in Calls : outcome[c].kind = "Timeout"

\* C10: the caller's input_variables and output_variables are the same
\* after the call as before it, on every path, whatever the code rebinds.
C10_CallerArgumentsUnchanged == req = req0

\* a call has ended after its code rebound a name seeded from the inputs
C10_Witness ==
    /\ ppc = "idle" /\ calls >= 1
    /\ Ended(calls)
    /\ \E n \in DOMAIN req0.input_variables :
          /\ n \in DOMAIN csym[calls]
          /\ csym[calls][n] # req0.input_variables[n]

\* the call in progress (or the last one) passed timeout_seconds
PassedTimeout == "timeout_seconds" \in DOMAIN req0.kwargs

\* C11 as stated: the deadline waited in join is the timeout_seconds the
\* caller passed (0.5 s when none is passed), and a call that passes
\* timeout_seconds=t is accepted: it ends in a mapping or in TimeoutException.
C11_DeadlineIsCallerSupplied ==
    /\ ppc = "join" =>
         JoinDeadline(req) = IF PassedTimeout
                             THEN Ticks(req0.kwargs["timeout_seconds"])
                             ELSE Seconds
    /\ (PassedTimeout /\ ppc = "idle" /\ calls >= 1) =>
         outcome[calls].kind \in {"Return", "Timeout"}

\* C11 (amended): the deadline waited in join is the decorator's constant,
\* 0.5 s, for every call: a context found alive when join returns has been
\* waited for at least that long, also when the caller passed a shorter
\* timeout_seconds.  evaluate takes no timeout_seconds: a call that passes
\* one ends in the TypeError raised in the child for the unexpected
\* keyword, or in TimeoutException after at least 0.5 s.
C11_DeadlineIsDecoratorConstant ==
    /\ (ppc \in {"L50", "L52", "L53"} /\ hist[calls].aliveAtJoin) =>
         clock - joinStart >= Seconds
    /\ (PassedTimeout /\ ppc = "idle" /\ calls >= 1) =>
         \/ /\ outcome[calls].kind = "Raise"
            /\ outcome[calls].exc.kind = "TypeError"
            /\ outcome[calls].exc.msg = "unexpected keyword"
         \/ /\ outcome[calls].kind = "Timeout"
            /\ outcome[calls].runtime >= Seconds

\* a call that passed timeout_seconds=1 has timed out, after 2 ticks or more
C11_Witness ==
    /\ PassedTimeout /\ ppc = "idle" /\ calls >= 1
    /\ Ticks(req0.kwargs["timeout_seconds"]) < Seconds
    /\ outcome[calls].kind = "Timeout"
    /\ outcome[calls].runtime >= Seconds


\* the code contains a construct the interpreter was built without
\* (no_try, no_functiondef, no_listcomp, no_assert, no_delete, no_raise,
\* no_print: lines 86-94)
HasDisabledConstruct(code) == \E i \in DOMAIN code : code[i].op = "bad"

\* C12: when the code contains a disabled construct and the call does not
\* time out, evaluate raises an evaluation failure to the caller and returns
\* no mapping, neither a full nor a partial one.
C12_DisabledConstructRaises ==
    (ppc = "idle" /\ calls >= 1 /\ HasDisabledConstruct(req0.code)
       /\ Ended(calls) /\ ~TimedOut(calls)) =>
        /\ outcome[calls].kind = "Raise"
        /\ outcome[calls].map = NoMap


\* run_func of context c has ended, and terminate() was not called on c
RunFuncEnded(c) ==
    /\ c = calls
    /\ cpc[c] \in {"ret", "exiting", "dead"}
    /\ hist[c].terminates = 0

\* C13: every invocation of run_func whose callable ends without being
\* forcibly terminated has pushed exactly one envelope, (True, result) after
\* a normal return and (False, e) after a raised failure of any kind: no
\* context finishes with zero envelopes pushed.
C13_ExactlyOneEnvelopePushed ==
    \A c \in Calls :
        RunFuncEnded(c) =>
            /\ hist[c].puts = 1
            /\ cenv[c].ok <=> hist[c].raised = NoExc
            /\ ~cenv[c].ok => cenv[c].exc = hist[c].raised


\* C14: whenever the caller invokes result() (queue.get, line 56), the
\* context is not alive and the queue already holds an envelope the read can
\* take, so the read does not block; and result() is never invoked on the
\* timeout path.
C14_ResultNeverBlocks ==
    /\ ppc = "L56" =>
         /\ ~alive[calls]
         /\ queue[calls].pipe # <<>>
         /\ hist[calls].terminates = 0
    /\ \A c \in Calls : TimedOut(c) => hist[c].gets = 0


\* C15: terminate() is invoked on a context at most once per call, and only
\* right after join has returned and is_alive() has then been observed true;
\* a call on whose context it was invoked ends in TimeoutException, never in
\* a returned mapping, a relayed failure or the assertion failure.
C15_TerminateOnlyAfterTimeout ==
    /\ [](\A c \in Calls :
            /\ hist[c].terminates <= 1
            /\ hist[c].terminates = 1 => outcome[c].kind \in {"none", "Timeout"}
            /\ outcome[c].kind \in {"Return", "Raise", "Assert"} =>
                 hist[c].terminates = 0
            /\ \A i \in DOMAIN hist[c].trace :
                 hist[c].trace[i] = "terminate" =>
                    /\ i > 2
                    /\ hist[c].trace[i - 1] = "is_alive"
                    /\ hist[c].trace[i - 2] = "join"
                    /\ hist[c].aliveAtJoin
                    /\ \A j \in DOMAIN hist[c].trace :
                         hist[c].trace[j] = "terminate" => j = i)
    /\ [][\A c \in Calls :
            hist'[c].terminates # hist[c].terminates =>
               /\ c = calls
               /\ ppc = "L52"
               /\ hist'[c].terminates = hist[c].terminates + 1
               /\ hist'[c].trace = Append(hist[c].trace, "terminate")]_vars

\* one call returned a mapping without terminate(), the next had its
\* context terminated once
C15_Witness ==
    /\ calls = 2
    /\ outcome[1].kind = "Return" /\ hist[1].terminates = 0
    /\ hist[2].terminates = 1
    /\ hist[2].trace = <<"now", "init", "start", "join", "is_alive", "terminate">>


\* C16: successive calls are independent.  Each call creates its own queue
\* and its own context, which runs that call's arguments; a context not yet
\* created does nothing and its queue is untouched; the envelope a call
\* reads is the one its own context pushed; and what the call returns or
\* re-raises is that envelope's content, whatever earlier calls did
\* (returned, failed or timed out).
C16_CallsIndependent ==
    /\ \A c \in Calls :
         /\ hist[c].starts <= 1
         /\ c > calls => /\ cpc[c] = "none" /\ ~alive[c]
                         /\ queue[c] = EmptyQueue /\ hist[c] = NoHist
    /\ calls >= 1 =>
         /\ cargs[calls] \in {NoRequest, req0}
         /\ ppc = "L48" => queue[calls] = EmptyQueue /\ cenv[calls] = NoEnvelope
         /\ ppc = "L57" =>
              /\ hist[calls].puts = 1 /\ hist[calls].gets = 1
              /\ got = Loads(Dumps(cenv[calls]))
         /\ (ppc = "idle" /\ outcome[calls].kind \in {"Return", "Raise"}) =>
              /\ cargs[calls] = req0
              /\ outcome[calls] = Deliver(Loads(Dumps(cenv[calls])))

\* the first call timed out; the second call read the envelope of its own
\* context and returned that mapping
C16_Witness ==
    /\ calls = 2 /\ ppc = "idle"
    /\ outcome[1].kind = "Timeout"
    /\ outcome[2].kind = "Return"
    /\ outcome[2].map # NoMap
    /\ outcome[2].map = cenv[2].map


\* operation a was completed before operation b
Before(tr, a, b) ==
    \E i \in DOMAIN tr : \E j \in DOMAIN tr : i < j /\ tr[i] = a /\ tr[j] = b

\* C17 as stated: on the timeout path the steps occur in the order start(),
\* record the start timestamp, join, compute the elapsed time, terminate(),
\* raise: the timestamp is taken after start() and the elapsed time is
\* computed before terminate().
C17_TimestampAfterStartElapsedBeforeTerminate ==
    (ppc = "idle" /\ calls >= 1 /\ TimedOut(calls)) =>
        /\ Before(hist[calls].trace, "start", "now")
        /\ Before(hist[calls].trace, "now", "join")
        /\ Before(hist[calls].trace, "join", "runtime")
        /\ Before(hist[calls].trace, "runtime", "terminate")
        /\ Before(hist[calls].trace, "terminate", "raise")

\* C17 (amended): on the timeout path the steps occur in this order: record
\* the start timestamp, create the context, start() it, join(deadline),
\* is_alive() observed true, terminate(), compute the elapsed time, raise
\* TimeoutException carrying it.  The timestamp is taken before start() and
\* the elapsed time is computed after terminate(), so the duration carried
\* covers the spawning of the context and the terminate() call.
C17_TimestampBeforeStartElapsedAfterTerminate ==
    (ppc = "idle" /\ calls >= 1 /\ TimedOut(calls)) =>
        /\ hist[calls].trace = <<"now", "init", "start", "join", "is_alive",
                                 "terminate", "runtime", "raise">>
        /\ outcome[calls].exc.kind = "TimeoutException"

\* a call has timed out, with an elapsed time longer than the deadline
C17_Witness ==
    /\ ppc = "idle" /\ calls >= 1 /\ TimedOut(calls)
    /\ Before(hist[calls].trace, "now", "start")
    /\ Before(hist[calls].trace, "terminate", "runtime")
    /\ outcome[calls].runtime > Seconds


\* C18: with force_kill=False a timeout raises TimeoutException without
\* terminating the context: terminate() is never invoked, no SIGTERM is
\* sent, the context stays alive after the call has ended until it ends by
\* itself, and an envelope it pushes is never read; only with
\* force_kill=True is the context of a timed-out call terminated.
C18_ForceKillDecidesTermination ==
    /\ [](\A c \in Calls :
            /\ TimedOut(c) => hist[c].terminates = IF force_kill THEN 1 ELSE 0
            /\ TimedOut(c) => hist[c].gets = 0
            /\ ~force_kill => hist[c].terminates = 0 /\ ~sigterm[c])
    /\ [][\A c \in Calls :
            (~force_kill /\ alive[c] /\ ~alive'[c]) => cpc[c] = "exiting"]_vars
    /\ [][force_kill' = force_kill]_vars

\* force_kill=False: the call has ended in TimeoutException, nothing was
\* terminated, and the context is still running, about to push its envelope
C18_Witness ==
    /\ ~force_kill
    /\ ppc = "idle" /\ calls >= 1 /\ TimedOut(calls)
    /\ hist[calls].terminates = 0
    /\ alive[calls] /\ cpc[calls] \in {"L28", "L30"}
    /\ queue[calls].sem < maxsize
    /\ hist[calls].trace = <<"now", "init", "start", "join", "is_alive",
                             "runtime", "raise">>


\* C19: the elapsed duration carried by every TimeoutException is at least
\* the deadline passed to join, for every interleaving of parent and child
\* (the clock never goes backwards): at line 53 the difference of the two
\* clock readings is at least `seconds`, and so is the duration reported.
C19_ElapsedAtLeastDeadline ==
    /\ ppc = "L53" => clock - now >= Seconds
    /\ \A c \in Calls :
         (c = calls /\ TimedOut(c)) =>
             /\ outcome[c].runtime >= Seconds
             /\ outcome[c].exc.kind = "TimeoutException"

\* a call has timed out with an elapsed time of exactly the deadline, its
\* context having been started and terminated within that time
C19_Witness ==
    /\ calls >= 1 /\ TimedOut(calls)
    /\ outcome[calls].runtime = Seconds
    /\ hist[calls].terminates = 1

====
